---- MODULE Spec2Model ----
(***************************************************************************)
(* Copy-on-write reference-counted array of src/memory_benchmark.c         *)
(* (cow_create, cow_copy, cow_ensure_unique, cow_free and the              *)
(* benchmark_cow driver).                                                  *)
(*                                                                         *)
(* The heap is modelled as two growing sequences of blocks: `data` holds   *)
(* the payload blocks returned by malloc(size * sizeof(int)) and           *)
(* `ref_count` holds the one-int blocks returned by malloc(sizeof(int)).   *)
(* A block's address is its index; addresses are never reused, so that a   *)
(* second free() of a block is visible in dataFrees / refFrees.            *)
(* A cow_array value is the pair (hdata[h], href[h]) of a handle slot h.   *)
(* The counters are C ints; with at most a handful of handles they stay    *)
(* far from INT_MAX, so they are modelled as unbounded integers.           *)
(*                                                                         *)
(* The module also holds the layered container store of                    *)
(* src/containerStorage.c (SpecStore): its Layer and Container objects,    *)
(* the two storage calculations, and the cleanup run by main.              *)
(***************************************************************************)
EXTENDS Integers, Sequences, FiniteSets, TLC

\* ARRAY_SIZE of memory_benchmark.c (line 16), scaled down to two elements.
ARRAY_SIZE == 2

\* NUM_COPIES and NUM_MODIFICATIONS (lines 22 and 28), scaled down.
NUM_COPIES == 2
NUM_MODIFICATIONS == 2

\* Number of cow_array slots of the sequential API client.
MaxHandles == 3

\* The int values rand() may produce, cut to two.
Values == {0, 99}

VARIABLES
    hstate,     \* handle slot -> "unused" | "live" | "released"
    hdata,      \* handle slot -> arr.data      (index into data, 0 = unset)
    href,       \* handle slot -> arr.ref_count (index into ref_count, 0 = unset)
    data,       \* payload blocks: sequence of [0..n-1 -> Values]
    ref_count,  \* counter blocks: sequence of Int
    dataFrees,  \* number of free() calls made on each payload block
    refFrees,   \* number of free() calls made on each counter block
    fault,      \* "none", or what undefined behaviour did to the process:
                \* "crash" | "oob_read" | "oob_write" | "null_write" | "uaf"
    dups,       \* number of physical duplications (malloc + memcpy) so far
    pc, ci, cj, made_unique,  \* benchmark_cow: position, i, j, made_unique
    tpc,        \* thread -> position inside the call it is executing
    tmp,        \* thread -> the counter value it loaded for a ++ or --
    old_data,   \* thread -> old_data of its cow_ensure_unique call
    thist,      \* thread -> the calls it has started, in order
    intended,   \* counter blocks as they would be with ++ and -- indivisible
    count,              \* containerStorage.c: the container count of main
    layers,             \* Layer objects in allocation order: [id, size_mb, content_hash]
    layerFrees,         \* number of free() calls made on each Layer
    conts,              \* Container objects: [id, layers, layer_count]
    contFrees,          \* free() calls on each Container and on its layers array
    containers_no_cow,  \* main's array of Container pointers, no-CoW path
    containers_cow,     \* main's array of Container pointers, CoW path
    arrFrees,           \* free() calls on those two arrays
    shared_ubuntu,      \* main's shared_ubuntu (index into layers, 0 = unset)
    storage_no_cow,     \* main's storage_no_cow (-1 = not computed yet)
    storage_cow,        \* main's storage_cow (-1 = not computed yet)
    mpc, mi             \* main of containerStorage.c: position, loop index

heap == <<hstate, hdata, href, data, ref_count, dataFrees, refFrees, fault, dups>>
bench == <<pc, ci, cj, made_unique>>
conc == <<tpc, tmp, old_data, thist, intended>>
cstore == <<count, layers, layerFrees, conts, contFrees, containers_no_cow,
            containers_cow, arrFrees, shared_ubuntu, storage_no_cow, storage_cow,
            mpc, mi>>
vars == <<hstate, hdata, href, data, ref_count, dataFrees, refFrees, fault,
          dups, pc, ci, cj, made_unique, tpc, tmp, old_data, thist, intended,
          count, layers, layerFrees, conts, contFrees, containers_no_cow,
          containers_cow, arrFrees, shared_ubuntu, storage_no_cow, storage_cow,
          mpc, mi>>

Handles == DOMAIN hstate
Live(h) == hstate[h] = "live"
LiveHandles == {h \in Handles : Live(h)}

\* Number of elements of a payload block.
BlockLen(blk) == Cardinality(DOMAIN blk)

\* The first unused slot: handles are handed out in order, like copies[i].
NextSlot(h) == hstate[h] = "unused" /\ \A k \in 1..(h - 1) : hstate[k] # "unused"

----------------------------------------------------------------------------
(* The four operations of the cow_array API and the driver's store.        *)

\* cow_create(size): the payload comes from malloc, so its elements hold
\* arbitrary values; the counter block is set to 1.
cow_create(h, size) ==
    \E init \in [0..(size - 1) -> Values] :
        /\ data' = Append(data, init)
        /\ dataFrees' = Append(dataFrees, 0)
        /\ ref_count' = Append(ref_count, 1)
        /\ refFrees' = Append(refFrees, 0)
        /\ hdata' = [hdata EXCEPT ![h] = Len(data) + 1]
        /\ href' = [href EXCEPT ![h] = Len(ref_count) + 1]
        /\ hstate' = [hstate EXCEPT ![h] = "live"]
        /\ UNCHANGED <<fault, dups>>

\* Variant: an eager copy, which duplicates the payload and its counter.
cow_copy_eager(src, dest) ==
    /\ data' = Append(data, data[hdata[src]])
    /\ dataFrees' = Append(dataFrees, 0)
    /\ ref_count' = Append(ref_count, 1)
    /\ refFrees' = Append(refFrees, 0)
    /\ hdata' = [hdata EXCEPT ![dest] = Len(data) + 1]
    /\ href' = [href EXCEPT ![dest] = Len(ref_count) + 1]
    /\ hstate' = [hstate EXCEPT ![dest] = "live"]
    /\ UNCHANGED <<fault, dups>>

\* Variant: the increment of the shared counter is forgotten.
cow_copy_noinc(src, dest) ==
    /\ hdata' = [hdata EXCEPT ![dest] = hdata[src]]
    /\ href' = [href EXCEPT ![dest] = href[src]]
    /\ hstate' = [hstate EXCEPT ![dest] = "live"]
    /\ UNCHANGED <<ref_count, data, dataFrees, refFrees, fault, dups>>

\* cow_copy(src): dest = src; (*(dest.ref_count))++.
cow_copy(src, dest) ==
    /\ hdata' = [hdata EXCEPT ![dest] = hdata[src]]
    /\ href' = [href EXCEPT ![dest] = href[src]]
    /\ ref_count' = [ref_count EXCEPT ![href[src]] = @ + 1]
    /\ hstate' = [hstate EXCEPT ![dest] = "live"]
    /\ UNCHANGED <<data, dataFrees, refFrees, fault, dups>>

\* Variant: the sharing test is off by one (ref_count > 2).
cow_ensure_unique_skip(h) ==
    IF ref_count[href[h]] > 2
    THEN /\ data' = Append(data, data[hdata[h]])
         /\ dataFrees' = Append(dataFrees, 0)
         /\ hdata' = [hdata EXCEPT ![h] = Len(data) + 1]
         /\ ref_count' = Append([ref_count EXCEPT ![href[h]] = @ - 1], 1)
         /\ refFrees' = Append(refFrees, 0)
         /\ href' = [href EXCEPT ![h] = Len(ref_count) + 1]
         /\ dups' = dups + 1
         /\ UNCHANGED <<hstate, fault>>
    ELSE UNCHANGED heap

\* Variant: a fresh counter is installed but arr->data still points at the
\* shared payload.
cow_ensure_unique_alias(h) ==
    IF ref_count[href[h]] > 1
    THEN /\ ref_count' = Append([ref_count EXCEPT ![href[h]] = @ - 1], 1)
         /\ refFrees' = Append(refFrees, 0)
         /\ href' = [href EXCEPT ![h] = Len(ref_count) + 1]
         /\ UNCHANGED <<hstate, hdata, data, dataFrees, fault, dups>>
    ELSE UNCHANGED heap

\* Variant: the old counter is not decremented.
cow_ensure_unique_nodec(h) ==
    IF ref_count[href[h]] > 1
    THEN /\ data' = Append(data, data[hdata[h]])
         /\ dataFrees' = Append(dataFrees, 0)
         /\ hdata' = [hdata EXCEPT ![h] = Len(data) + 1]
         /\ ref_count' = Append(ref_count, 1)
         /\ refFrees' = Append(refFrees, 0)
         /\ href' = [href EXCEPT ![h] = Len(ref_count) + 1]
         /\ dups' = dups + 1
         /\ UNCHANGED <<hstate, fault>>
    ELSE UNCHANGED heap

\* Variant: a defensive reallocation, also when the handle is the only owner.
cow_ensure_unique_always(h) ==
    IF ref_count[href[h]] >= 1
    THEN /\ data' = Append(data, data[hdata[h]])
         /\ dataFrees' = Append(dataFrees, 0)
         /\ hdata' = [hdata EXCEPT ![h] = Len(data) + 1]
         /\ ref_count' = Append([ref_count EXCEPT ![href[h]] = @ - 1], 1)
         /\ refFrees' = Append(refFrees, 0)
         /\ href' = [href EXCEPT ![h] = Len(ref_count) + 1]
         /\ dups' = dups + 1
         /\ UNCHANGED <<hstate, fault>>
    ELSE UNCHANGED heap

\* Variant: the new counter block is never installed; the handle keeps
\* pointing at the counter of the payload it left.
cow_ensure_unique_nonewref(h) ==
    IF ref_count[href[h]] > 1
    THEN /\ data' = Append(data, data[hdata[h]])
         /\ dataFrees' = Append(dataFrees, 0)
         /\ hdata' = [hdata EXCEPT ![h] = Len(data) + 1]
         /\ ref_count' = Append([ref_count EXCEPT ![href[h]] = @ - 1], 1)
         /\ refFrees' = Append(refFrees, 0)
         /\ dups' = dups + 1
         /\ UNCHANGED <<hstate, href, fault>>
    ELSE UNCHANGED heap

\* cow_ensure_unique(arr).  The new block always has ARRAY_SIZE elements and
\* memcpy always moves ARRAY_SIZE elements, whatever size the block was
\* created with: elements past the end of a shorter old block are read out
\* of bounds (arbitrary values, or the process dies).
cow_ensure_unique(h) ==
    IF ref_count[href[h]] > 1
    THEN LET old == data[hdata[h]]
             n == BlockLen(old)
         IN \E tail \in [n..(ARRAY_SIZE - 1) -> Values],
               outcome \in (IF n < ARRAY_SIZE THEN {"oob_read", "crash"} ELSE {fault}) :
                IF outcome = "crash"
                THEN /\ fault' = "crash"
                     /\ UNCHANGED <<hstate, hdata, href, data, ref_count,
                                    dataFrees, refFrees, dups>>
                ELSE /\ data' = Append(data,
                            [i \in 0..(ARRAY_SIZE - 1) |->
                                IF i < n THEN old[i] ELSE tail[i]])
                     /\ dataFrees' = Append(dataFrees, 0)
                     /\ hdata' = [hdata EXCEPT ![h] = Len(data) + 1]
                     /\ ref_count' = Append([ref_count EXCEPT ![href[h]] = @ - 1], 1)
                     /\ refFrees' = Append(refFrees, 0)
                     /\ href' = [href EXCEPT ![h] = Len(ref_count) + 1]
                     /\ fault' = outcome
                     /\ dups' = dups + 1
                     /\ UNCHANGED hstate
    ELSE UNCHANGED heap

\* arr.data[index] = value (benchmark_cow lines 214 and 250).
store(h, index, value) ==
    /\ data' = [data EXCEPT ![hdata[h]][index] = value]
    /\ UNCHANGED <<hstate, hdata, href, ref_count, dataFrees, refFrees, fault, dups>>

\* Variant: the blocks are freed one release early (counter compared with 1).
cow_free_early(h) ==
    LET c == href[h]
        left == ref_count[c] - 1
    IN /\ ref_count' = [ref_count EXCEPT ![c] = left]
       /\ dataFrees' = IF left <= 1
                       THEN [dataFrees EXCEPT ![hdata[h]] = @ + 1]
                       ELSE dataFrees
       /\ refFrees' = IF left <= 1
                      THEN [refFrees EXCEPT ![c] = @ + 1]
                      ELSE refFrees
       /\ hstate' = [hstate EXCEPT ![h] = "released"]
       /\ UNCHANGED <<hdata, href, data, fault, dups>>

\* Variant: the counter is compared before it is decremented
\* ((*ref_count)-- == 0), so the blocks of a last owner are never freed.
cow_free_leak(h) ==
    LET c == href[h]
    IN /\ ref_count' = [ref_count EXCEPT ![c] = @ - 1]
       /\ dataFrees' = IF ref_count[c] = 0
                       THEN [dataFrees EXCEPT ![hdata[h]] = @ + 1]
                       ELSE dataFrees
       /\ refFrees' = IF ref_count[c] = 0
                      THEN [refFrees EXCEPT ![c] = @ + 1]
                      ELSE refFrees
       /\ hstate' = [hstate EXCEPT ![h] = "released"]
       /\ UNCHANGED <<hdata, href, data, fault, dups>>

\* cow_free(arr): decrement, and free both blocks when the counter is 0.
\* The slot is dead afterwards; its two pointers keep their (stale) values.
cow_free(h) ==
    LET c == href[h]
        left == ref_count[c] - 1
    IN /\ ref_count' = [ref_count EXCEPT ![c] = left]
       /\ dataFrees' = IF left = 0
                       THEN [dataFrees EXCEPT ![hdata[h]] = @ + 1]
                       ELSE dataFrees
       /\ refFrees' = IF left = 0
                      THEN [refFrees EXCEPT ![c] = @ + 1]
                      ELSE refFrees
       /\ hstate' = [hstate EXCEPT ![h] = "released"]
       /\ UNCHANGED <<hdata, href, data, fault, dups>>

----------------------------------------------------------------------------
(* Spec: a sequential client that creates one array and then calls the API *)
(* on live handles in any order.                                           *)

InitHeap(nHandles) ==
    /\ hstate = [h \in 1..nHandles |-> "unused"]
    /\ hdata = [h \in 1..nHandles |-> 0]
    /\ href = [h \in 1..nHandles |-> 0]
    /\ data = <<>>
    /\ ref_count = <<>>
    /\ dataFrees = <<>>
    /\ refFrees = <<>>
    /\ fault = "none"
    /\ dups = 0

\* No thread is inside a call: the client is sequential.
NoThreads ==
    /\ tpc = <<>> /\ tmp = <<>> /\ old_data = <<>> /\ thist = <<>>
    /\ intended = <<>>

\* The program of containerStorage.c is not running.
NoStore ==
    /\ count = 0 /\ layers = <<>> /\ layerFrees = <<>>
    /\ conts = <<>> /\ contFrees = <<>>
    /\ containers_no_cow = <<>> /\ containers_cow = <<>>
    /\ arrFrees = [no_cow |-> 0, cow |-> 0]
    /\ shared_ubuntu = 0
    /\ storage_no_cow = 0 - 1 /\ storage_cow = 0 - 1
    /\ mpc = "none" /\ mi = 0

\* The process has not died.
Running == fault # "crash"

Init ==
    /\ InitHeap(MaxHandles)
    /\ pc = "api" /\ ci = 0 /\ cj = 0 /\ made_unique = 0
    /\ NoThreads
    /\ NoStore

\* cow_array original = cow_create(ARRAY_SIZE), once (benchmark_cow line 206).
Create(h) ==
    /\ NextSlot(h)
    /\ data = <<>>
    /\ cow_create(h, ARRAY_SIZE)
    /\ UNCHANGED <<bench, conc, cstore>>

Copy(src, dest) ==
    /\ Running /\ Live(src)
    /\ NextSlot(dest)
    /\ cow_copy(src, dest)
    /\ UNCHANGED <<bench, conc, cstore>>

EnsureUnique(h) ==
    /\ Running /\ Live(h)
    /\ cow_ensure_unique(h)
    /\ UNCHANGED <<bench, conc, cstore>>

\* index = rand() % ARRAY_SIZE; arr.data[index] = rand().
Write(h, index, value) ==
    /\ Running /\ Live(h)
    /\ store(h, index, value)
    /\ UNCHANGED <<bench, conc, cstore>>

Free(h) ==
    /\ Running /\ Live(h)
    /\ cow_free(h)
    /\ UNCHANGED <<bench, conc, cstore>>

Next ==
    \/ \E h \in Handles : Create(h)
    \/ \E s \in Handles, d \in Handles : Copy(s, d)
    \/ \E h \in Handles : EnsureUnique(h)
    \/ \E h \in Handles, i \in 0..(ARRAY_SIZE - 1), v \in Values : Write(h, i, v)
    \/ \E h \in Handles : Free(h)

Spec == Init /\ [][Next]_vars

----------------------------------------------------------------------------
(* SpecBench: one run of benchmark_cow.  original is slot 1 and copies[i]  *)
(* is slot i + 2.  The value of index (line 242) is drawn where it is      *)
(* used, at the store of line 250.                                         *)

Original == 1
CopySlot(i) == i + 2

InitBench ==
    /\ InitHeap(NUM_COPIES + 1)
    /\ pc = "create" /\ ci = 0 /\ cj = 0 /\ made_unique = 0
    /\ NoThreads
    /\ NoStore

\* Line 206: cow_array original = cow_create(ARRAY_SIZE).
BCreate ==
    /\ pc = "create"
    /\ UNCHANGED <<conc, cstore>>
    /\ cow_create(Original, ARRAY_SIZE)
    /\ pc' = "init" /\ cj' = 0
    /\ UNCHANGED <<ci, made_unique>>

\* Lines 213-215: for (i < ARRAY_SIZE) original.data[i] = rand().
BInit ==
    /\ pc = "init"
    /\ UNCHANGED <<conc, cstore>>
    /\ IF cj < ARRAY_SIZE
       THEN /\ \E v \in Values : store(Original, cj, v)
            /\ cj' = cj + 1
            /\ UNCHANGED <<pc, ci>>
       ELSE /\ pc' = "copy" /\ ci' = 0 /\ cj' = 0
            /\ UNCHANGED heap
    /\ UNCHANGED made_unique

\* Lines 225-230: copies[i] = cow_copy(original).
BCopy ==
    /\ pc = "copy"
    /\ UNCHANGED <<conc, cstore>>
    /\ IF ci < NUM_COPIES
       THEN /\ cow_copy(Original, CopySlot(ci))
            /\ ci' = ci + 1
            /\ UNCHANGED pc
       ELSE /\ pc' = "mod_outer" /\ ci' = 0
            /\ UNCHANGED heap
    /\ UNCHANGED <<cj, made_unique>>

\* Lines 233-241: the outer loop head; made_unique = 0, j = 0.
BModOuter ==
    /\ pc = "mod_outer"
    /\ UNCHANGED <<conc, cstore>>
    /\ IF ci < NUM_COPIES
       THEN pc' = "mod_inner" /\ made_unique' = 0 /\ cj' = 0
       ELSE pc' = "free_original" /\ UNCHANGED <<made_unique, cj>>
    /\ UNCHANGED <<heap, ci>>

\* Lines 241-248: the inner loop head and the guarded cow_ensure_unique.
BModInner ==
    /\ pc = "mod_inner"
    /\ UNCHANGED <<conc, cstore>>
    /\ IF cj < NUM_MODIFICATIONS
       THEN /\ IF made_unique = 0
               THEN cow_ensure_unique(CopySlot(ci)) /\ made_unique' = 1
               ELSE UNCHANGED <<heap, made_unique>>
            /\ pc' = "mod_write"
            /\ UNCHANGED ci
       ELSE /\ pc' = "mod_outer" /\ ci' = ci + 1
            /\ UNCHANGED <<heap, made_unique>>
    /\ UNCHANGED cj

\* Line 250: copies[i].data[index] = rand(), with index = rand() % ARRAY_SIZE.
BModWrite ==
    /\ pc = "mod_write"
    /\ UNCHANGED <<conc, cstore>>
    /\ \E index \in 0..(ARRAY_SIZE - 1), v \in Values : store(CopySlot(ci), index, v)
    /\ pc' = "mod_inner" /\ cj' = cj + 1
    /\ UNCHANGED <<ci, made_unique>>

\* Line 258: cow_free(&original).
BFreeOriginal ==
    /\ pc = "free_original"
    /\ UNCHANGED <<conc, cstore>>
    /\ cow_free(Original)
    /\ pc' = "free_copies" /\ ci' = 0
    /\ UNCHANGED <<cj, made_unique>>

\* Lines 259-261: cow_free(&copies[i]).
BFreeCopies ==
    /\ pc = "free_copies"
    /\ UNCHANGED <<conc, cstore>>
    /\ IF ci < NUM_COPIES
       THEN /\ cow_free(CopySlot(ci))
            /\ ci' = ci + 1
            /\ UNCHANGED pc
       ELSE /\ pc' = "done"
            /\ UNCHANGED <<heap, ci>>
    /\ UNCHANGED <<cj, made_unique>>

NextBench ==
    \/ BCreate
    \/ BInit
    \/ BCopy
    \/ BModOuter
    \/ BModInner
    \/ BModWrite
    \/ BFreeOriginal
    \/ BFreeCopies

SpecBench == InitBench /\ [][NextBench]_vars

----------------------------------------------------------------------------
(* SpecSize: the sequential client, with cow_create called with any size. *)

\* Largest size passed to cow_create.
MaxSize == 3
Sizes == 1..MaxSize

CreateSized(h, size) ==
    /\ NextSlot(h)
    /\ data = <<>>
    /\ cow_create(h, size)
    /\ UNCHANGED <<bench, conc, cstore>>

NextSize ==
    \/ \E h \in Handles, n \in Sizes : CreateSized(h, n)
    \/ \E s \in Handles, d \in Handles : Copy(s, d)
    \/ \E h \in Handles : EnsureUnique(h)
    \/ \E h \in Handles : Free(h)

SpecSize == Init /\ [][NextSize]_vars

----------------------------------------------------------------------------
(* SpecConc: two threads, each holding one of the two handles of a payload *)
(* whose counter holds 2, call cow_copy, cow_ensure_unique and cow_free on *)
(* their own handle.  Threads interleave at every access to shared memory: *)
(* the ++ and -- of the counter are a load followed by a store, and the    *)
(* test of cow_free (line 114) loads the counter again.  Thread t holds    *)
(* slot t and keeps the result of its cow_copy in slot t + 2.              *)

Threads == {1, 2}

\* Number of calls a thread makes.
MaxThreadOps == 2

DestSlot(t) == t + 2

\* The state after a = cow_create(ARRAY_SIZE); b = cow_copy(a).
InitConc ==
    /\ hstate = <<"live", "live", "unused", "unused">>
    /\ hdata = <<1, 1, 0, 0>>
    /\ href = <<1, 1, 0, 0>>
    /\ \E init \in [0..(ARRAY_SIZE - 1) -> Values] : data = <<init>>
    /\ ref_count = <<2>>
    /\ dataFrees = <<0>>
    /\ refFrees = <<0>>
    /\ fault = "none"
    /\ dups = 0
    /\ pc = "threads" /\ ci = 0 /\ cj = 0 /\ made_unique = 0
    /\ tpc = [t \in Threads |-> "idle"]
    /\ tmp = [t \in Threads |-> 0]
    /\ old_data = [t \in Threads |-> 0]
    /\ thist = [t \in Threads |-> <<>>]
    /\ intended = <<2>>
    /\ NoStore

\* Thread t is between calls and may start one on its handle.
MayCall(t) == tpc[t] = "idle" /\ Live(t) /\ Len(thist[t]) < MaxThreadOps

\* cow_copy, line 74 and the load of line 75.
TCopyLoad(t) ==
    /\ MayCall(t)
    /\ hstate[DestSlot(t)] = "unused"
    /\ hdata' = [hdata EXCEPT ![DestSlot(t)] = hdata[t]]
    /\ href' = [href EXCEPT ![DestSlot(t)] = href[t]]
    /\ tmp' = [tmp EXCEPT ![t] = ref_count[href[t]]]
    /\ tpc' = [tpc EXCEPT ![t] = "cp_store"]
    /\ thist' = [thist EXCEPT ![t] = Append(@, "copy")]
    /\ UNCHANGED <<hstate, data, ref_count, dataFrees, refFrees, fault, dups,
                   bench, cstore, old_data, intended>>

\* cow_copy, the store of line 75 and the return.
TCopyStore(t) ==
    /\ tpc[t] = "cp_store"
    /\ ref_count' = [ref_count EXCEPT ![href[DestSlot(t)]] = tmp[t] + 1]
    /\ intended' = [intended EXCEPT ![href[DestSlot(t)]] = @ + 1]
    /\ hstate' = [hstate EXCEPT ![DestSlot(t)] = "live"]
    /\ tpc' = [tpc EXCEPT ![t] = "idle"]
    /\ UNCHANGED <<hdata, href, data, dataFrees, refFrees, fault, dups,
                   bench, cstore, tmp, old_data, thist>>

\* cow_ensure_unique, the test of line 89.
TEnsureCheck(t) ==
    /\ MayCall(t)
    /\ tpc' = [tpc EXCEPT ![t] = IF ref_count[href[t]] > 1 THEN "eu_alloc" ELSE "idle"]
    /\ thist' = [thist EXCEPT ![t] = Append(@, "ensure")]
    /\ UNCHANGED <<heap, bench, cstore, tmp, old_data, intended>>

\* cow_ensure_unique, lines 91-92: old_data = arr->data; arr->data = malloc.
TEnsureAlloc(t) ==
    /\ tpc[t] = "eu_alloc"
    /\ old_data' = [old_data EXCEPT ![t] = hdata[t]]
    /\ \E init \in [0..(ARRAY_SIZE - 1) -> Values] : data' = Append(data, init)
    /\ dataFrees' = Append(dataFrees, 0)
    /\ hdata' = [hdata EXCEPT ![t] = Len(data) + 1]
    /\ tpc' = [tpc EXCEPT ![t] = "eu_copy"]
    /\ UNCHANGED <<hstate, href, ref_count, refFrees, fault, dups,
                   bench, cstore, tmp, thist, intended>>

\* cow_ensure_unique, line 93: memcpy(arr->data, old_data, ...).
TEnsureCopy(t) ==
    /\ tpc[t] = "eu_copy"
    /\ data' = [data EXCEPT ![hdata[t]] = data[old_data[t]]]
    /\ dups' = dups + 1
    /\ tpc' = [tpc EXCEPT ![t] = "eu_dec_load"]
    /\ UNCHANGED <<hstate, hdata, href, ref_count, dataFrees, refFrees, fault,
                   bench, cstore, tmp, old_data, thist, intended>>

\* cow_ensure_unique, the load of line 96.
TEnsureDecLoad(t) ==
    /\ tpc[t] = "eu_dec_load"
    /\ tmp' = [tmp EXCEPT ![t] = ref_count[href[t]]]
    /\ tpc' = [tpc EXCEPT ![t] = "eu_dec_store"]
    /\ UNCHANGED <<heap, bench, cstore, old_data, thist, intended>>

\* cow_ensure_unique, the store of line 96.
TEnsureDecStore(t) ==
    /\ tpc[t] = "eu_dec_store"
    /\ ref_count' = [ref_count EXCEPT ![href[t]] = tmp[t] - 1]
    /\ intended' = [intended EXCEPT ![href[t]] = @ - 1]
    /\ tpc' = [tpc EXCEPT ![t] = "eu_install"]
    /\ UNCHANGED <<hstate, hdata, href, data, dataFrees, refFrees, fault, dups,
                   bench, cstore, tmp, old_data, thist>>

\* cow_ensure_unique, lines 99-100: the new counter block, set to 1.
TEnsureInstall(t) ==
    /\ tpc[t] = "eu_install"
    /\ ref_count' = Append(ref_count, 1)
    /\ intended' = Append(intended, 1)
    /\ refFrees' = Append(refFrees, 0)
    /\ href' = [href EXCEPT ![t] = Len(ref_count) + 1]
    /\ tpc' = [tpc EXCEPT ![t] = "idle"]
    /\ UNCHANGED <<hstate, hdata, data, dataFrees, fault, dups,
                   bench, cstore, tmp, old_data, thist>>

\* cow_free, the load of line 113.
TFreeLoad(t) ==
    /\ MayCall(t)
    /\ tmp' = [tmp EXCEPT ![t] = ref_count[href[t]]]
    /\ tpc' = [tpc EXCEPT ![t] = "fr_store"]
    /\ thist' = [thist EXCEPT ![t] = Append(@, "free")]
    /\ UNCHANGED <<heap, bench, cstore, old_data, intended>>

\* cow_free, the store of line 113.
TFreeStore(t) ==
    /\ tpc[t] = "fr_store"
    /\ ref_count' = [ref_count EXCEPT ![href[t]] = tmp[t] - 1]
    /\ intended' = [intended EXCEPT ![href[t]] = @ - 1]
    /\ tpc' = [tpc EXCEPT ![t] = "fr_test"]
    /\ UNCHANGED <<hstate, hdata, href, data, dataFrees, refFrees, fault, dups,
                   bench, cstore, tmp, old_data, thist>>

\* cow_free, lines 114-117: the counter is loaded again and compared with 0.
TFreeTest(t) ==
    /\ tpc[t] = "fr_test"
    /\ dataFrees' = IF ref_count[href[t]] = 0
                    THEN [dataFrees EXCEPT ![hdata[t]] = @ + 1]
                    ELSE dataFrees
    /\ refFrees' = IF ref_count[href[t]] = 0
                   THEN [refFrees EXCEPT ![href[t]] = @ + 1]
                   ELSE refFrees
    /\ hstate' = [hstate EXCEPT ![t] = "released"]
    /\ tpc' = [tpc EXCEPT ![t] = "idle"]
    /\ UNCHANGED <<hdata, href, data, ref_count, fault, dups,
                   bench, cstore, tmp, old_data, thist, intended>>

NextConc ==
    \/ \E t \in Threads : TCopyLoad(t)
    \/ \E t \in Threads : TCopyStore(t)
    \/ \E t \in Threads : TEnsureCheck(t)
    \/ \E t \in Threads : TEnsureAlloc(t)
    \/ \E t \in Threads : TEnsureCopy(t)
    \/ \E t \in Threads : TEnsureDecLoad(t)
    \/ \E t \in Threads : TEnsureDecStore(t)
    \/ \E t \in Threads : TEnsureInstall(t)
    \/ \E t \in Threads : TFreeLoad(t)
    \/ \E t \in Threads : TFreeStore(t)
    \/ \E t \in Threads : TFreeTest(t)

SpecConc == InitConc /\ [][NextConc]_vars

----------------------------------------------------------------------------
(* SpecStore: main of src/containerStorage.c.  Layer and Container objects *)
(* live in two growing sequences; an object's address is its index and is  *)
(* never reused.  C's layers[j] is element j + 1 of a container's layers   *)
(* sequence.  main runs with CONTAINER_COUNT containers; the functions it  *)
(* calls take the count as a parameter, which is drawn from 1..MaxCount.   *)

\* const int CONTAINER_COUNT = 10 (line 154).
CONTAINER_COUNT == 10

\* Largest count passed to the functions.
MaxCount == 10

\* create_ubuntu_layer(): the Layer it fills in.
create_ubuntu_layer ==
    [id |-> <<"ubuntu:latest">>, size_mb |-> 120,
     content_hash |-> <<"sha256:ubuntu-base-layer">>]

\* create_container_layer(container_id): the Layer it fills in.
create_container_layer(container_id) ==
    [id |-> <<"container", container_id, "layer">>, size_mb |-> 3,
     content_hash |-> <<"sha256:container", container_id, "unique">>]

\* Iteration i of the loop of create_containers_no_cow: one Container with
\* one layer, a Layer of its own made by create_ubuntu_layer.
create_containers_no_cow(i) ==
    /\ layers' = Append(layers, create_ubuntu_layer)
    /\ layerFrees' = Append(layerFrees, 0)
    /\ conts' = Append(conts, [id |-> <<"container", i + 1>>, layer_count |-> 1,
                               layers |-> <<Len(layers) + 1>>])
    /\ contFrees' = Append(contFrees, [self |-> 0, layers |-> 0])
    /\ containers_no_cow' = Append(containers_no_cow, Len(conts) + 1)
    /\ UNCHANGED containers_cow

\* Variant: every container is given the exclusive layer of the first one.
create_containers_cow_samelayer(i) ==
    /\ layers' = IF i = 0 THEN Append(layers, create_container_layer(i + 1)) ELSE layers
    /\ layerFrees' = IF i = 0 THEN Append(layerFrees, 0) ELSE layerFrees
    /\ conts' = Append(conts, [id |-> <<"container", i + 1>>, layer_count |-> 2,
                               layers |-> <<shared_ubuntu,
                                            IF i = 0 THEN Len(layers) + 1
                                            ELSE conts[containers_cow[1]].layers[2]>>])
    /\ contFrees' = Append(contFrees, [self |-> 0, layers |-> 0])
    /\ containers_cow' = Append(containers_cow, Len(conts) + 1)
    /\ UNCHANGED containers_no_cow

\* Iteration i of the loop of create_containers_cow: one Container with two
\* layers, shared_ubuntu and a new Layer made by create_container_layer.
create_containers_cow(i) ==
    /\ layers' = Append(layers, create_container_layer(i + 1))
    /\ layerFrees' = Append(layerFrees, 0)
    /\ conts' = Append(conts, [id |-> <<"container", i + 1>>, layer_count |-> 2,
                               layers |-> <<shared_ubuntu, Len(layers) + 1>>])
    /\ contFrees' = Append(contFrees, [self |-> 0, layers |-> 0])
    /\ containers_cow' = Append(containers_cow, Len(conts) + 1)
    /\ UNCHANGED containers_no_cow

\* The inner loop of the two calculate functions: the sizes of layers
\* j .. layer_count - 1 of container c.
RECURSIVE SumLayers(_, _)
SumLayers(c, j) ==
    IF j < c.layer_count
    THEN layers[c.layers[j + 1]].size_mb + SumLayers(c, j + 1)
    ELSE 0

\* The outer loop: containers i .. cnt - 1, inner loop starting at first.
RECURSIVE SumContainers(_, _, _, _)
SumContainers(containers, i, cnt, first) ==
    IF i < cnt
    THEN SumLayers(conts[containers[i + 1]], first)
         + SumContainers(containers, i + 1, cnt, first)
    ELSE 0

\* calculate_storage_no_cow(containers, count).
calculate_storage_no_cow(containers, cnt) ==
    SumContainers(containers, 0, cnt, 0)

\* Variant: the base is counted once for every container as well.
calculate_storage_cow_perentity(containers, cnt, shared) ==
    layers[shared].size_mb + SumContainers(containers, 0, cnt, 0)

\* calculate_storage_cow(containers, count, shared_ubuntu).
calculate_storage_cow(containers, cnt, shared) ==
    layers[shared].size_mb + SumContainers(containers, 0, cnt, 1)

\* free() of layers first .. layer_count - 1 of container k, of its layers
\* array and of the Container itself.
free_container(k, first) ==
    LET c == conts[k]
    IN /\ layerFrees' = [l \in DOMAIN layerFrees |->
                            layerFrees[l]
                            + Cardinality({j \in (first + 1)..c.layer_count :
                                              c.layers[j] = l})]
       /\ contFrees' = [contFrees EXCEPT ![k] = [self |-> @.self + 1,
                                                 layers |-> @.layers + 1]]

\* Iteration i of the loop of cleanup_containers_no_cow.
cleanup_containers_no_cow(i) == free_container(containers_no_cow[i + 1], 0)

\* Variant: the shared base is freed with every container, as in the no-CoW
\* cleanup.
cleanup_containers_cow_all(i) == free_container(containers_cow[i + 1], 0)

\* Iteration i of the loop of cleanup_containers_cow: layer 0 is skipped.
cleanup_containers_cow(i) == free_container(containers_cow[i + 1], 1)

\* main before its first statement, called with some count.
InitStore ==
    /\ InitHeap(0)
    /\ pc = "none" /\ ci = 0 /\ cj = 0 /\ made_unique = 0
    /\ NoThreads
    /\ count \in 1..MaxCount
    /\ layers = <<>> /\ layerFrees = <<>>
    /\ conts = <<>> /\ contFrees = <<>>
    /\ containers_no_cow = <<>> /\ containers_cow = <<>>
    /\ arrFrees = [no_cow |-> 0, cow |-> 0]
    /\ shared_ubuntu = 0
    /\ storage_no_cow = 0 - 1 /\ storage_cow = 0 - 1
    /\ mpc = "create_no_cow" /\ mi = 0

\* The loop index after this iteration, and where main goes when the loop
\* is over.
LoopStep(next) ==
    IF mi + 1 < count
    THEN mi' = mi + 1 /\ mpc' = mpc
    ELSE mi' = 0 /\ mpc' = next

\* Line 163, one iteration of create_containers_no_cow.
MCreateNoCow ==
    /\ mpc = "create_no_cow"
    /\ create_containers_no_cow(mi)
    /\ LoopStep("calc_no_cow")
    /\ UNCHANGED <<count, arrFrees, shared_ubuntu, storage_no_cow, storage_cow>>
    /\ UNCHANGED <<heap, bench, conc>>

\* Line 165.
MCalcNoCow ==
    /\ mpc = "calc_no_cow"
    /\ storage_no_cow' = calculate_storage_no_cow(containers_no_cow, count)
    /\ mpc' = "shared"
    /\ UNCHANGED <<count, layers, layerFrees, conts, contFrees, containers_no_cow,
                   containers_cow, arrFrees, shared_ubuntu, storage_cow, mi>>
    /\ UNCHANGED <<heap, bench, conc>>

\* Line 167: Layer* shared_ubuntu = create_ubuntu_layer().
MShared ==
    /\ mpc = "shared"
    /\ layers' = Append(layers, create_ubuntu_layer)
    /\ layerFrees' = Append(layerFrees, 0)
    /\ shared_ubuntu' = Len(layers) + 1
    /\ mpc' = "create_cow"
    /\ UNCHANGED <<count, conts, contFrees, containers_no_cow, containers_cow,
                   arrFrees, storage_no_cow, storage_cow, mi>>
    /\ UNCHANGED <<heap, bench, conc>>

\* Line 170, one iteration of create_containers_cow.
MCreateCow ==
    /\ mpc = "create_cow"
    /\ create_containers_cow(mi)
    /\ LoopStep("calc_cow")
    /\ UNCHANGED <<count, arrFrees, shared_ubuntu, storage_no_cow, storage_cow>>
    /\ UNCHANGED <<heap, bench, conc>>

\* Line 172.
MCalcCow ==
    /\ mpc = "calc_cow"
    /\ storage_cow' = calculate_storage_cow(containers_cow, count, shared_ubuntu)
    /\ mpc' = "cleanup_no_cow"
    /\ UNCHANGED <<count, layers, layerFrees, conts, contFrees, containers_no_cow,
                   containers_cow, arrFrees, shared_ubuntu, storage_no_cow, mi>>
    /\ UNCHANGED <<heap, bench, conc>>

\* Line 193, one iteration of cleanup_containers_no_cow.
MCleanupNoCow ==
    /\ mpc = "cleanup_no_cow"
    /\ cleanup_containers_no_cow(mi)
    /\ LoopStep("cleanup_cow")
    /\ UNCHANGED <<count, layers, conts, containers_no_cow, containers_cow,
                   arrFrees, shared_ubuntu, storage_no_cow, storage_cow>>
    /\ UNCHANGED <<heap, bench, conc>>

\* Line 194, one iteration of cleanup_containers_cow.
MCleanupCow ==
    /\ mpc = "cleanup_cow"
    /\ cleanup_containers_cow(mi)
    /\ LoopStep("free_shared")
    /\ UNCHANGED <<count, layers, conts, containers_no_cow, containers_cow,
                   arrFrees, shared_ubuntu, storage_no_cow, storage_cow>>
    /\ UNCHANGED <<heap, bench, conc>>

\* Lines 195-197: free(shared_ubuntu); free(containers_no_cow);
\* free(containers_cow).
MFreeShared ==
    /\ mpc = "free_shared"
    /\ layerFrees' = [layerFrees EXCEPT ![shared_ubuntu] = @ + 1]
    /\ arrFrees' = [no_cow |-> arrFrees.no_cow + 1, cow |-> arrFrees.cow + 1]
    /\ mpc' = "done"
    /\ UNCHANGED <<count, layers, conts, contFrees, containers_no_cow,
                   containers_cow, shared_ubuntu, storage_no_cow, storage_cow, mi>>
    /\ UNCHANGED <<heap, bench, conc>>

NextStore ==
    \/ MCreateNoCow
    \/ MCalcNoCow
    \/ MShared
    \/ MCreateCow
    \/ MCalcCow
    \/ MCleanupNoCow
    \/ MCleanupCow
    \/ MFreeShared

SpecStore == InitStore /\ [][NextStore]_vars

\* Width of size_t, scaled down from 64 bits; the totals stay far below
\* 2^SizeBits.
SizeBits == 16

\* The value printed at line 189: storage_no_cow - storage_cow, in size_t
\* arithmetic.
storage_saved == (storage_no_cow - storage_cow) % (2 ^ SizeBits)

----------------------------------------------------------------------------
(* SpecOOB: the sequential client, storing at any index.  cow_array keeps  *)
(* no size and the store arr.data[index] = value is a plain C store.       *)

\* Indices a caller may pass: one below, inside, and one past the payload.
Indices == (0 - 1)..ARRAY_SIZE

\* arr.data[index] = value for any index.  Inside the payload it is store.
\* Outside, the store lands outside the malloc'ed block (undefined
\* behaviour): the process dies, or the value lands in memory the model does
\* not track, or in a counter block, or in an element of another payload.
store_any(h, index, value) ==
    IF index \in DOMAIN data[hdata[h]]
    THEN store(h, index, value)
    ELSE \/ /\ fault' = "crash"
            /\ UNCHANGED <<hstate, hdata, href, data, ref_count, dataFrees,
                           refFrees, dups>>
         \/ /\ fault' = "oob_write"
            /\ UNCHANGED <<hstate, hdata, href, data, ref_count, dataFrees,
                           refFrees, dups>>
         \/ \E c \in 1..Len(ref_count) :
               /\ fault' = "oob_write"
               /\ ref_count' = [ref_count EXCEPT ![c] = value]
               /\ UNCHANGED <<hstate, hdata, href, data, dataFrees, refFrees, dups>>
         \/ \E d \in (1..Len(data)) \ {hdata[h]}, i \in 0..(ARRAY_SIZE - 1) :
               /\ fault' = "oob_write"
               /\ data' = [data EXCEPT ![d][i] = value]
               /\ UNCHANGED <<hstate, hdata, href, ref_count, dataFrees, refFrees, dups>>

WriteAt(h, index, value) ==
    /\ fault = "none" /\ Live(h)
    /\ store_any(h, index, value)
    /\ UNCHANGED <<bench, conc, cstore>>

NextOOB ==
    \/ \E h \in Handles : Create(h)
    \/ \E s \in Handles, d \in Handles : fault = "none" /\ Copy(s, d)
    \/ \E h \in Handles : fault = "none" /\ EnsureUnique(h)
    \/ \E h \in Handles, i \in Indices, v \in Values : WriteAt(h, i, v)
    \/ \E h \in Handles : fault = "none" /\ Free(h)

SpecOOB == Init /\ [][NextOOB]_vars

----------------------------------------------------------------------------
(* SpecUAR: the sequential client, which may also call cow_free on a       *)
(* handle it has already released.  cow_array has no released flag and     *)
(* cow_free does not reset the handle, so the call runs lines 113-117 on   *)
(* the stale pointers.                                                     *)

\* The counter block the handle points at was given back to free().
Stale(h) == hstate[h] # "unused" /\ refFrees[href[h]] >= 1

\* Values a freed counter block may be read as.
StaleValues == {0, 1, 2}

\* cow_free(arr) on any handle value.  While the counter block is still
\* allocated the code of cow_free runs as usual.  Once it was freed, line 113
\* reads and writes freed memory: the process dies, or the decrement acts on
\* whatever the block holds now and a result of 0 frees both blocks again.
cow_free_u(h) ==
    IF ~Stale(h)
    THEN cow_free(h)
    ELSE \/ /\ fault' = "crash"
            /\ UNCHANGED <<hstate, hdata, href, data, ref_count, dataFrees,
                           refFrees, dups>>
         \/ \E stale \in StaleValues :
               /\ fault' = "uaf"
               /\ ref_count' = [ref_count EXCEPT ![href[h]] = stale - 1]
               /\ dataFrees' = IF stale - 1 = 0
                               THEN [dataFrees EXCEPT ![hdata[h]] = @ + 1]
                               ELSE dataFrees
               /\ refFrees' = IF stale - 1 = 0
                              THEN [refFrees EXCEPT ![href[h]] = @ + 1]
                              ELSE refFrees
               /\ hstate' = [hstate EXCEPT ![h] = "released"]
               /\ UNCHANGED <<hdata, href, data, dups>>

\* cow_free(&x) once more, on a handle that was released.
FreeReleased(h) ==
    /\ fault = "none"
    /\ hstate[h] = "released"
    /\ cow_free_u(h)
    /\ UNCHANGED <<bench, conc, cstore>>

\* cow_free(&x) on a live handle whose blocks a second release of another
\* handle has already freed.
FreeDangling(h) ==
    /\ fault = "none"
    /\ Live(h) /\ Stale(h)
    /\ cow_free_u(h)
    /\ UNCHANGED <<bench, conc, cstore>>

\* cow_copy, cow_ensure_unique or a store on such a handle: every one of
\* them dereferences the freed counter or payload.
UseDangling(h) ==
    /\ fault = "none"
    /\ Live(h) /\ Stale(h)
    /\ fault' \in {"crash", "uaf"}
    /\ UNCHANGED <<hstate, hdata, href, data, ref_count, dataFrees, refFrees, dups>>
    /\ UNCHANGED <<bench, conc, cstore>>

NextUAR ==
    \/ \E h \in Handles : Create(h)
    \/ \E s \in Handles, d \in Handles : fault = "none" /\ ~Stale(s) /\ Copy(s, d)
    \/ \E h \in Handles : fault = "none" /\ ~Stale(h) /\ EnsureUnique(h)
    \/ \E h \in Handles : fault = "none" /\ ~Stale(h) /\ Free(h)
    \/ \E h \in Handles : FreeReleased(h)
    \/ \E h \in Handles : FreeDangling(h)
    \/ \E h \in Handles : UseDangling(h)

SpecUAR == Init /\ [][NextUAR]_vars

----------------------------------------------------------------------------
(* SpecAlloc: the sequential client when malloc may return NULL.  Pointer  *)
(* 0 is NULL.  Each call that allocates takes the outcome of its two       *)
(* mallocs as inputs.                                                      *)

\* cow_create(size) when malloc may fail.  Line 59 stores 1 through the
\* counter pointer without testing it: with a NULL counter pointer the store
\* is a null dereference (the process dies, or the store lands at address 0
\* and the half-built object is returned).  A NULL data pointer is returned
\* to the caller as it is, next to a counter block holding 1.
cow_create_m(h, size, dataOk, refOk) ==
    \E init \in [0..(size - 1) -> Values],
       outcome \in (IF refOk THEN {fault} ELSE {"crash", "null_write"}) :
        /\ data' = IF dataOk THEN Append(data, init) ELSE data
        /\ dataFrees' = IF dataOk THEN Append(dataFrees, 0) ELSE dataFrees
        /\ ref_count' = IF refOk THEN Append(ref_count, 1) ELSE ref_count
        /\ refFrees' = IF refOk THEN Append(refFrees, 0) ELSE refFrees
        /\ fault' = outcome
        /\ IF outcome = "crash"
           THEN UNCHANGED <<hdata, href, hstate>>
           ELSE /\ hdata' = [hdata EXCEPT ![h] = IF dataOk THEN Len(data) + 1 ELSE 0]
                /\ href' = [href EXCEPT ![h] = IF refOk THEN Len(ref_count) + 1 ELSE 0]
                /\ hstate' = [hstate EXCEPT ![h] = "live"]
        /\ UNCHANGED dups

\* cow_ensure_unique(arr) when malloc may fail.  Line 92 overwrites arr->data
\* with the result of malloc and line 93 copies into it untested: with NULL
\* the memcpy writes through a null pointer, after the handle lost its data
\* pointer.  Line 98 overwrites arr->ref_count and line 99 stores 1 through
\* it untested: with NULL the store is a null dereference, after the handle
\* took the new payload and the old counter was decremented.  The function
\* returns void.
cow_ensure_unique_m(h, dataOk, refOk) ==
    IF ref_count[href[h]] > 1
    THEN IF ~dataOk
         THEN /\ hdata' = [hdata EXCEPT ![h] = 0]
              /\ fault' = "crash"
              /\ UNCHANGED <<hstate, href, data, ref_count, dataFrees, refFrees, dups>>
         ELSE IF ~refOk
         THEN /\ data' = Append(data, data[hdata[h]])
              /\ dataFrees' = Append(dataFrees, 0)
              /\ hdata' = [hdata EXCEPT ![h] = Len(data) + 1]
              /\ ref_count' = [ref_count EXCEPT ![href[h]] = @ - 1]
              /\ href' = [href EXCEPT ![h] = 0]
              /\ fault' \in {"crash", "null_write"}
              /\ dups' = dups + 1
              /\ UNCHANGED <<hstate, refFrees>>
         ELSE cow_ensure_unique(h)
    ELSE UNCHANGED heap

\* Neither dead nor past a failed store, and not exited.
Runs == fault = "none" /\ pc = "api"

\* benchmark_cow lines 206-210: create, and exit(1) on a NULL data pointer.
\* Nothing is freed on the way out.
ACreate(h, dataOk, refOk) ==
    /\ fault = "none" /\ pc = "api"
    /\ NextSlot(h)
    /\ data = <<>> /\ ref_count = <<>>
    /\ cow_create_m(h, ARRAY_SIZE, dataOk, refOk)
    /\ pc' = IF fault' # "crash" /\ hdata'[h] = 0 THEN "exit" ELSE pc
    /\ UNCHANGED <<ci, cj, made_unique, conc, cstore>>

AEnsureUnique(h, dataOk, refOk) ==
    /\ Runs /\ Live(h)
    /\ cow_ensure_unique_m(h, dataOk, refOk)
    /\ UNCHANGED <<bench, conc, cstore>>

NextAlloc ==
    \/ \E h \in Handles, dataOk \in BOOLEAN, refOk \in BOOLEAN : ACreate(h, dataOk, refOk)
    \/ \E s \in Handles, d \in Handles : Runs /\ Copy(s, d)
    \/ \E h \in Handles, dataOk \in BOOLEAN, refOk \in BOOLEAN : AEnsureUnique(h, dataOk, refOk)
    \/ \E h \in Handles, i \in 0..(ARRAY_SIZE - 1), v \in Values : Runs /\ Write(h, i, v)
    \/ \E h \in Handles : Runs /\ Free(h)

SpecAlloc == Init /\ [][NextAlloc]_vars

----------------------------------------------------------------------------
(* Properties of the sequential API (Spec) and of benchmark_cow            *)
(* (SpecBench).                                                            *)

\* The live handles that reference payload block d / counter block c.
Sharers(d) == {h \in LiveHandles : hdata[h] = d}
CounterSharers(c) == {h \in LiveHandles : href[h] = c}
Released(d) == {h \in Handles : hstate[h] = "released" /\ hdata[h] = d}

\* C1: a payload block is freed exactly once, and exactly when its last
\* live handle is released: while a live handle references it, it has never
\* been freed; once no live handle references it, it has been freed once.
C1_FreedExactlyAtLastRelease ==
    \A d \in 1..Len(data) :
        dataFrees[d] = IF Sharers(d) # {} THEN 0 ELSE 1

\* A payload that was shared by two handles, both released, and freed.
C1_Witness ==
    \E d \in 1..Len(data) : dataFrees[d] = 1 /\ Cardinality(Released(d)) >= 2

\* C2: in benchmark_cow no step changes the contents of a payload block
\* that a live handle references through a counter greater than 1.
C2_NoWriteToSharedPayload ==
    [][\A d \in 1..Len(data) :
          data'[d] # data[d] =>
              \A h \in Sharers(d) : ref_count[href[h]] = 1]_vars

\* The last copy has been made unique and written NUM_MODIFICATIONS times,
\* and its contents differ from the original's.
C2_Witness ==
    /\ pc = "mod_inner" /\ ci = NUM_COPIES - 1 /\ cj = NUM_MODIFICATIONS
    /\ made_unique = 1
    /\ hdata[CopySlot(ci)] # hdata[Original]
    /\ data[hdata[CopySlot(ci)]] # data[hdata[Original]]

\* The step leaves every handle other than a on its payload, and leaves the
\* value read through it unchanged at every index.
OthersUntouched(a) ==
    \A b \in LiveHandles \ {a} :
        /\ hdata'[b] = hdata[b]
        /\ \A i \in DOMAIN data[hdata[b]] :
               data'[hdata'[b]][i] = data[hdata[b]][i]

\* C3: cow_ensure_unique on handle a changes no value read through any
\* other live handle and leaves a with a counter of 1; and a write through
\* a handle whose counter is 1 (the state cow_ensure_unique leaves it in)
\* changes no value read through any other live handle, at any index.
C3_ForkIsolation ==
    [][\A a \in Handles :
          /\ EnsureUnique(a) =>
                 OthersUntouched(a) /\ ref_count'[href'[a]] = 1
          /\ (/\ Live(a) /\ ref_count[href[a]] = 1
              /\ \E i \in 0..(ARRAY_SIZE - 1), v \in Values : Write(a, i, v))
                 => OthersUntouched(a)]_vars

\* Handle a forked away from a payload that two other handles still share,
\* and then wrote: its contents differ from theirs.
C3_Witness ==
    \E a \in LiveHandles, b \in LiveHandles :
        /\ a # b
        /\ hdata[a] = Len(data) /\ hdata[a] # hdata[b]
        /\ ref_count[href[b]] = 2
        /\ ref_count[href[a]] = 1
        /\ dups >= 1
        /\ data[hdata[a]] # data[hdata[b]]

\* C4: cow_copy allocates nothing and copies nothing: the new handle has
\* the source's payload and counter pointers, the counter grows by exactly
\* 1, every payload keeps its contents, and both handles read the same
\* value at every index.
C4_ShareNoCopy ==
    [][\A s \in Handles, d \in Handles :
          Copy(s, d) =>
              /\ Len(data') = Len(data)
              /\ Len(ref_count') = Len(ref_count)
              /\ data' = data
              /\ hdata'[d] = hdata[s] /\ href'[d] = href[s]
              /\ hdata'[s] = hdata[s] /\ href'[s] = href[s]
              /\ ref_count'[href[s]] = ref_count[href[s]] + 1
              /\ \A c \in 1..Len(ref_count) :
                     c # href[s] => ref_count'[c] = ref_count[c]
              /\ \A i \in DOMAIN data[hdata[s]] :
                     /\ data'[hdata'[d]][i] = data'[hdata'[s]][i]
                     /\ data'[hdata'[s]][i] = data[hdata[s]][i]]_vars

\* Two live handles on one payload and one counter, which holds 2.
C4_Witness ==
    \E s \in LiveHandles, d \in LiveHandles :
        /\ s # d
        /\ hdata[s] = hdata[d] /\ href[s] = href[d]
        /\ ref_count[href[s]] = 2
        /\ Len(data) = 1

\* C5: when a handle whose counter holds k > 1 calls cow_ensure_unique, the
\* original counter becomes k - 1, the handle gets a newly allocated payload
\* and a newly allocated counter holding 1, the original payload keeps its
\* contents, and every other handle keeps its payload and counter pointers.
C5_ForkAccounting ==
    [][\A h \in Handles :
          (EnsureUnique(h) /\ ref_count[href[h]] > 1) =>
              /\ ref_count'[href[h]] = ref_count[href[h]] - 1
              /\ href'[h] = Len(ref_count) + 1
              /\ Len(ref_count') = Len(ref_count) + 1
              /\ ref_count'[href'[h]] = 1
              /\ hdata'[h] = Len(data) + 1
              /\ Len(data') = Len(data) + 1
              /\ data'[hdata[h]] = data[hdata[h]]
              /\ \A o \in Handles \ {h} :
                     hdata'[o] = hdata[o] /\ href'[o] = href[o]]_vars

\* Three handles; handle 2 forked and wrote 99 at index 0: handles 1 and 3
\* read 0, handle 2 reads 99, and the original counter holds 2.
C5_Witness ==
    /\ Live(1) /\ Live(2) /\ Live(3)
    /\ hdata[1] = hdata[3] /\ href[1] = href[3]
    /\ hdata[2] # hdata[1] /\ href[2] # href[1]
    /\ data[hdata[1]][0] = 0 /\ data[hdata[3]][0] = 0
    /\ data[hdata[2]][0] = 99
    /\ ref_count[href[1]] = 2 /\ ref_count[href[2]] = 1

\* C6: cow_ensure_unique on a handle whose counter holds 1 changes nothing
\* (no allocation, no counter, pointer or payload change); a call duplicates
\* exactly once when the counter is greater than 1 and leaves the handle
\* with a counter of 1; and a write changes no counter and no pointer, so a
\* second call, after any number of writes and no share, changes nothing.
C6_ForkIdempotence ==
    [][\A h \in Handles :
          /\ EnsureUnique(h) =>
              /\ ref_count[href[h]] = 1 => UNCHANGED heap
              /\ dups' = dups + (IF ref_count[href[h]] > 1 THEN 1 ELSE 0)
              /\ Len(data') = Len(data) + (IF ref_count[href[h]] > 1 THEN 1 ELSE 0)
              /\ ref_count'[href'[h]] = 1
          /\ (\E i \in 0..(ARRAY_SIZE - 1), v \in Values : Write(h, i, v)) =>
                 UNCHANGED <<hstate, hdata, href, ref_count, dups>>]_vars

\* A handle that was made unique by the one duplication so far and then
\* wrote to its private payload: a second call finds its counter at 1.
C6_Witness ==
    \E h \in LiveHandles :
        /\ dups = 1 /\ hdata[h] = 2
        /\ ref_count[href[h]] = 1
        /\ data[hdata[h]] # data[1]

\* C8: every counter referenced by a live handle holds at least 1, and a
\* counter holds 0 only if its own storage and the payload of the handles
\* that pointed at it have been freed.
C8_CounterAtLeastOne ==
    /\ \A h \in LiveHandles : ref_count[href[h]] >= 1
    /\ \A c \in 1..Len(ref_count) :
           ref_count[c] = 0 =>
               /\ refFrees[c] = 1
               /\ \E h \in Handles : href[h] = c
               /\ \A h \in Handles : href[h] = c => dataFrees[hdata[h]] = 1

\* One payload was released down to 0 and freed while a forked payload is
\* still live with its counter at 1.
C8_Witness ==
    /\ \E c \in 1..Len(ref_count) : ref_count[c] = 0 /\ refFrees[c] = 1
    /\ \E h \in LiveHandles : ref_count[href[h]] = 1 /\ hdata[h] > 1

----------------------------------------------------------------------------
(* Properties of cow_create with any size (SpecSize) and of concurrent     *)
(* callers (SpecConc).                                                     *)

\* C7: a fork installs a new payload with as many elements as the payload
\* it was forked from, equal to it at every index, and reads nothing
\* outside it.
C7_ForkCopiesCreatedSize ==
    [][\A h \in Handles :
          (EnsureUnique(h) /\ ref_count[href[h]] > 1) =>
              /\ fault' = "none"
              /\ hdata'[h] = Len(data) + 1
              /\ BlockLen(data'[hdata'[h]]) = BlockLen(data[hdata[h]])
              /\ \A i \in DOMAIN data[hdata[h]] :
                     data'[hdata'[h]][i] = data[hdata[h]][i]]_vars

AllIdle == \A t \in Threads : tpc[t] = "idle"

\* C9: when the two handles of a payload whose counter holds 2 call
\* cow_ensure_unique concurrently and both duplicate, the original counter
\* ends at 0 and the original payload has been freed exactly once.
C9_ConcurrentForksFreeOriginal ==
    (/\ AllIdle
     /\ \A t \in Threads : thist[t] = <<"ensure">>
     /\ dups = 2)
        => (ref_count[1] = 0 /\ dataFrees[1] = 1)

\* C10: when no thread is inside a call, every counter holds the value it
\* would hold had each ++ and -- been applied exactly once, no counter is
\* below 0, and every counter that was not freed holds the number of live
\* handles that point at it.
C10_CounterUpdatesAtomic ==
    AllIdle =>
        /\ ref_count = intended
        /\ \A c \in 1..Len(ref_count) :
               /\ ref_count[c] >= 0
               /\ refFrees[c] = 0 => ref_count[c] = Cardinality(CounterSharers(c))

----------------------------------------------------------------------------
(* Further properties of the sequential API (Spec) and of benchmark_cow    *)
(* (SpecBench).                                                            *)

\* C19: in the sequential client every live handle's data pointer and
\* counter pointer belong to the same payload (the two blocks allocated
\* together by cow_create or by one fork have the same index), and every
\* counter that a live handle points at holds the number of live handles
\* that reference its payload.
C19_CounterEqualsLiveHandles ==
    \A h \in LiveHandles :
        /\ hdata[h] = href[h]
        /\ ref_count[href[h]] = Cardinality(Sharers(hdata[h]))
        /\ ref_count[href[h]] = Cardinality(CounterSharers(href[h]))

\* Two payloads are live at once, one shared by two handles and one owned
\* by a single handle after a fork.
C19_Witness ==
    /\ \E h \in LiveHandles : ref_count[href[h]] = 2 /\ Cardinality(Sharers(hdata[h])) = 2
    /\ \E h \in LiveHandles : ref_count[href[h]] = 1 /\ hdata[h] > 1
    /\ dups >= 1

\* C20: benchmark_cow never frees a block twice and never changes a counter
\* whose block was freed; when it is done it has made exactly NUM_COPIES
\* duplications and allocated NUM_COPIES + 1 payload blocks and as many
\* counter blocks, each freed exactly once.
C20_BenchmarkFreesEverythingOnce ==
    /\ [](/\ \A d \in 1..Len(data) : dataFrees[d] <= 1
          /\ \A c \in 1..Len(ref_count) : refFrees[c] <= 1
          /\ pc = "done" =>
                /\ dups = NUM_COPIES
                /\ Len(data) = NUM_COPIES + 1
                /\ Len(ref_count) = NUM_COPIES + 1
                /\ \A d \in 1..Len(data) : dataFrees[d] = 1
                /\ \A c \in 1..Len(ref_count) : refFrees[c] = 1)
    /\ [][\A c \in 1..Len(ref_count) :
             refFrees[c] >= 1 => ref_count'[c] = ref_count[c]]_vars

\* The run is over, after every copy was written through.
C20_Witness ==
    /\ pc = "done"
    /\ dups = NUM_COPIES
    /\ \A h \in Handles : hstate[h] = "released"
    /\ \A d \in 1..Len(data) : dataFrees[d] = 1

----------------------------------------------------------------------------
(* Failure semantics (SpecAlloc).                                          *)

\* C11: when the allocation of the new payload or of the new counter fails
\* inside cow_ensure_unique, the process goes on (the failure is reported,
\* not fatal), the calling handle keeps its data pointer and counter
\* pointer, no counter changes and no other handle changes.
C11_ForkAllOrNothing ==
    [][\A h \in Handles, dataOk \in BOOLEAN, refOk \in BOOLEAN :
          ( /\ AEnsureUnique(h, dataOk, refOk)
            /\ ref_count[href[h]] > 1
            /\ ~(dataOk /\ refOk) )
          => /\ fault' = "none"
             /\ hstate' = hstate /\ hdata' = hdata /\ href' = href
             /\ ref_count' = ref_count]_vars

\* C12: a create whose two allocations succeed yields a live handle with a
\* payload and a counter equal to 1; a create one of whose allocations
\* fails does not kill the process, yields no handle that lacks a payload
\* or a counter, and leaves no block allocated.
C12_CreateAllOrNothing ==
    [][\A h \in Handles, dataOk \in BOOLEAN, refOk \in BOOLEAN :
          ACreate(h, dataOk, refOk)
          => IF dataOk /\ refOk
             THEN /\ Live(h)' /\ hdata'[h] # 0 /\ href'[h] # 0
                  /\ ref_count'[href'[h]] = 1
                  /\ fault' = "none"
             ELSE /\ fault' = "none"
                  /\ ~Live(h)'
                  /\ \A d \in 1..Len(data') : dataFrees'[d] >= 1
                  /\ \A c \in 1..Len(ref_count') : refFrees'[c] >= 1]_vars

\* C13: a release of a handle that was already released changes no counter,
\* frees nothing and does not kill the process or touch freed memory; and
\* no payload that a live handle references has ever been freed.
C13_ReleaseTwiceRejected ==
    /\ [](\A h \in LiveHandles : dataFrees[hdata[h]] = 0)
    /\ [][\A h \in Handles :
             FreeReleased(h)
             => /\ ref_count' = ref_count
                /\ dataFrees' = dataFrees /\ refFrees' = refFrees
                /\ fault' = "none"]_vars

\* C18: a store at an index outside [0, ARRAY_SIZE) is turned down: the
\* process goes on without having stored anything, and every counter and
\* every payload is as before.
C18_OutOfRangeRejected ==
    [][\A h \in Handles, i \in Indices, v \in Values :
          (WriteAt(h, i, v) /\ i \notin 0..(ARRAY_SIZE - 1))
          => /\ fault' = "none"
             /\ ref_count' = ref_count
             /\ data' = data]_vars

----------------------------------------------------------------------------
(* Properties of containerStorage.c (SpecStore).                           *)

\* The Container objects of the copy-on-write path created so far.
CowConts == {containers_cow[i] : i \in 1..Len(containers_cow)}

\* All layers of container k, and its layers other than layer 0.
LayersOf(k) == {conts[k].layers[j] : j \in 1..conts[k].layer_count}
Exclusive(k) == {conts[k].layers[j] : j \in 2..conts[k].layer_count}

\* C14: once main has computed storage_cow for count containers that share
\* a base of size B and hold one exclusive layer of size L each, it equals
\* B + count * L, the base counted once; for CONTAINER_COUNT = 10
\* containers, B = 120 and L = 3, it is 150.
C14_CowTotalCountsBaseOnce ==
    storage_cow # 0 - 1 =>
        LET B == layers[shared_ubuntu].size_mb
            L == create_container_layer(1).size_mb
        IN /\ \A k \in CowConts : \A l \in Exclusive(k) : layers[l].size_mb = L
           /\ storage_cow = B + count * L
           /\ (count = CONTAINER_COUNT /\ B = 120 /\ L = 3) => storage_cow = 150

\* main has computed 150 MB for ten containers.
C14_Witness ==
    /\ count = CONTAINER_COUNT
    /\ Len(containers_cow) = CONTAINER_COUNT
    /\ storage_cow = 150

\* C15: once main has computed storage_no_cow for count containers, it
\* equals count * (B + L) with B the size of the Ubuntu layer and L the
\* size of a container layer; for CONTAINER_COUNT = 10 containers, B = 120
\* and L = 3, it is 1230.
C15_NoCowTotalIsPerEntitySum ==
    storage_no_cow # 0 - 1 =>
        LET B == create_ubuntu_layer.size_mb
            L == create_container_layer(1).size_mb
        IN /\ storage_no_cow = count * (B + L)
           /\ (count = CONTAINER_COUNT /\ B = 120 /\ L = 3) => storage_no_cow = 1230

\* C16: no Layer is freed twice; the exclusive layers of a copy-on-write
\* container have been freed exactly as often as the container itself, at
\* most once; the shared base has not been freed while a container that
\* references it is not destroyed; and when main is done the base and every
\* container has been freed exactly once.
C16_DestroyFreesOnce ==
    /\ \A l \in 1..Len(layers) : layerFrees[l] <= 1
    /\ \A k \in CowConts :
          /\ contFrees[k].self <= 1 /\ contFrees[k].layers = contFrees[k].self
          /\ \A l \in Exclusive(k) : layerFrees[l] = contFrees[k].self
    /\ shared_ubuntu # 0 =>
          \A k \in CowConts :
             (shared_ubuntu \in LayersOf(k) /\ contFrees[k].self = 0)
             => layerFrees[shared_ubuntu] = 0
    /\ mpc = "done" =>
          /\ layerFrees[shared_ubuntu] = 1
          /\ \A k \in CowConts : contFrees[k].self = 1

\* main is done with several containers: all of them destroyed, then the
\* base freed.
C16_Witness ==
    /\ mpc = "done"
    /\ count >= 2
    /\ Len(containers_cow) = count
    /\ \A k \in CowConts : contFrees[k].self = 1
    /\ layerFrees[shared_ubuntu] = 1

\* C17: layer 0 of every copy-on-write container is the one shared_ubuntu
\* object, and no other layer of a container is a layer of another
\* container or the base; so giving an exclusive layer of one container a
\* new size leaves every layer of every other container and the base as
\* they are, and the number of containers that reference the base is the
\* number of containers created.
C17_ExclusiveLayersUnshared ==
    /\ \A k \in CowConts : conts[k].layers[1] = shared_ubuntu
    /\ \A k \in CowConts : shared_ubuntu \notin Exclusive(k)
    /\ \A k \in CowConts, m \in CowConts :
          k # m => Exclusive(k) \cap LayersOf(m) = {}
    /\ \A k \in CowConts : \A l \in Exclusive(k), s \in {0, 4} :
          LET written == [layers EXCEPT ![l].size_mb = s]
          IN /\ written[shared_ubuntu] = layers[shared_ubuntu]
             /\ \A m \in CowConts \ {k} : \A x \in LayersOf(m) : written[x] = layers[x]
    /\ Cardinality({k \in CowConts : shared_ubuntu \in LayersOf(k)})
          = Len(containers_cow)

\* All the containers of a run with several of them have been created.
C17_Witness ==
    /\ count >= 2
    /\ Len(containers_cow) = count
    /\ mpc = "calc_cow"
    /\ \A k \in CowConts : Cardinality(Exclusive(k)) = 1

----------------------------------------------------------------------------
(* Forks of all the sharers of one payload (Spec).                         *)

\* C21: in the sequential client a cow_ensure_unique call that finds the
\* counter above 1 makes one duplication and leaves the old counter at 1 or
\* more; a call that finds it at 1 makes none and keeps the payload.  So
\* while no handle has been released, k live handles have cost at most
\* k - 1 duplications, exactly k - 1 once every one of them is exclusive,
\* and the payload made by cow_create still has an owner and is allocated.
C21_ForksOfAllSharers ==
    /\ []((\A h \in Handles : hstate[h] # "released") /\ LiveHandles # {}
          => /\ dups <= Cardinality(LiveHandles) - 1
             /\ (\A h \in LiveHandles : ref_count[href[h]] = 1)
                   => dups = Cardinality(LiveHandles) - 1
             /\ Sharers(1) # {} /\ dataFrees[1] = 0
             /\ \A d \in 1..Len(data) : Sharers(d) # {})
    /\ [][\A h \in Handles :
             EnsureUnique(h)
             => IF ref_count[href[h]] > 1
                THEN /\ dups' = dups + 1
                     /\ ref_count'[href[h]] = ref_count[href[h]] - 1
                     /\ ref_count'[href[h]] >= 1
                     /\ {x \in Handles : hstate'[x] = "live" /\ hdata'[x] = hdata[h]}
                           = Sharers(hdata[h]) \ {h}
                ELSE /\ dups' = dups
                     /\ hdata'[h] = hdata[h] /\ ref_count' = ref_count]_vars

\* Every slot holds a live handle, each one exclusive, and the last owner of
\* the first payload kept it: one duplication fewer than there are handles.
C21_Witness ==
    /\ LiveHandles = Handles
    /\ \A h \in Handles : ref_count[href[h]] = 1
    /\ dups = Cardinality(Handles) - 1
    /\ Cardinality(Sharers(1)) = 1

----------------------------------------------------------------------------
(* The saving printed by main of containerStorage.c (SpecStore).           *)

\* C22: once main has computed both totals, for whatever count, the
\* copy-on-write total is 120 + 3 * count and is not above the total
\* without copy-on-write, so the size_t difference printed as the saving is
\* the true difference, not a wrapped one.
C22_SavingNeverWraps ==
    (storage_no_cow # 0 - 1 /\ storage_cow # 0 - 1) =>
        /\ storage_cow = 120 + 3 * count
        /\ storage_cow <= storage_no_cow
        /\ storage_saved = storage_no_cow - storage_cow

====
